---- MODULE Spec2Model ----
(***************************************************************************)
(* A model of l_system.py: the L_Grammar string-rewriting engine, the      *)
(* SimpleAgent turtle (position, heading, state stack, polylines) and the  *)
(* L_Agent that interprets an expanded grammar symbol by symbol.           *)
(*                                                                         *)
(* Strings are sequences of one-character strings.  Python lists are heap  *)
(* objects: heap[k] is the content of list object k, and _trace / _traces  *)
(* hold references (indices into heap), so that two references to the     *)
(* same list see each other's appends.                                     *)
(*                                                                         *)
(* Coordinates are integers and headings are whole multiples of 90         *)
(* degrees, for which cos and sin are taken as exactly -1, 0 or 1; the     *)
(* rounding residue of numpy's cos(pi/2) (about 6e-17) is not modelled.    *)
(***************************************************************************)
EXTENDS Integers, Sequences, FiniteSets, TLC

VARIABLES
    initial,      \* L_Grammar.initial
    rules,        \* L_Grammar.rules: character -> replacement string
    iterations,   \* the iterations argument of expand / L_Agent.iterations
    expansion,    \* expand's local: the string rewritten so far
    i,            \* expand's loop counter: passes completed
    log,          \* what a direct caller of expand got back: <<n, string>> per call
    x0, y0, phi0, \* constructor arguments of the agent
    x, y, phi,    \* SimpleAgent.x, .y, .phi
    _trace,       \* SimpleAgent._trace: reference to the open polyline
    _state,       \* SimpleAgent._state: stack of saved (x, y, phi)
    _traces,      \* SimpleAgent._traces: references to the archived polylines
    heap,         \* the list objects the references point to
    step,         \* L_Agent.step
    dphi,         \* L_Agent.dphi
    agent_rules,  \* L_Agent.rules: the dispatch table, symbol -> operation
    seq,          \* _process's local: the expanded command string
    idx,          \* _process's loop position: symbols of seq interpreted so far
    call,         \* the operation invoked last: <<name>> or <<name, argument>>
    raised,       \* the exception the last operation raised, "none" if it returned
    nops,         \* number of operations a direct caller has invoked
    pc            \* control position

gvars == <<initial, rules>>
evars == <<iterations, expansion, i>>
cvars == <<x0, y0, phi0>>
avars == <<x, y, phi, _trace, _state, _traces, heap>>
lvars == <<step, dphi, agent_rules>>
pvars == <<seq, idx>>
vars == <<gvars, evars, log, cvars, avars, lvars, pvars, call, raised, nops, pc>>

(***************************************************************************)
(* Bounds of the model.                                                    *)
(***************************************************************************)
MaxInitLen == 2    \* longest initial string of a grammar called directly
MaxCmdLen == 2     \* longest initial string of a grammar handed to an agent
MaxIter == 2       \* largest iteration count
MaxSeqLen == 6     \* longest expansion followed
MaxCalls == 3      \* expand calls a direct caller makes
MaxOps == 5        \* operations a direct caller invokes on an agent

\* The characters a command string is built from: the keys of default_rules
\* and one character, Q, that no dispatch table knows.
Symbols == {"F", "B", "+", "-", "X", "Y", "[", "]", "Q"}

GrammarSymbols == {"F", "X", "+"}

StringsOver(alphabet, n) == UNION { [1..k -> alphabet] : k \in 0..n }

EmptyRules == [c \in {} |-> <<>>]

\* Rule mappings the grammars are drawn from: none, the bracketed branching
\* rule, a self-referential rule, an erasing rule, a pair of rules whose
\* replacement text contains the other's key, and rules that introduce B, ]
\* and Q.
RuleMaps ==
    { EmptyRules,
      "F" :> <<"F", "[", "F", "]", "F">>,
      "F" :> <<"F">>,
      "F" :> <<>>,
      ("F" :> <<"X", "F">>) @@ ("X" :> <<"F", "-", "X">>),
      ("F" :> <<"B", "+">>) @@ ("X" :> <<"]", "Q">>) @@ ("+" :> <<"Y">>) }

(***************************************************************************)
(* L_Grammar                                                               *)
(***************************************************************************)

\* dict.get(ch, ch): the replacement of ch, or ch itself when ch is no key.
get(r, ch) == IF ch \in DOMAIN r THEN r[ch] ELSE <<ch>>

\* "".join(parts): the parts concatenated in order.
RECURSIVE join(_)
join(parts) == IF parts = <<>> THEN <<>> ELSE Head(parts) \o join(Tail(parts))

\* One pass of expand's loop body:
\*   "".join([self.rules.get(ch, ch) for ch in expansion])
RewritePass(r, s) == join([k \in 1..Len(s) |-> get(r, s[k])])

\* The values of the variables no grammar call touches.
AgentAbsent ==
    /\ x0 = 0 /\ y0 = 0 /\ phi0 = 0
    /\ x = 0 /\ y = 0 /\ phi = 0
    /\ _trace = 0 /\ _state = <<>> /\ _traces = <<>> /\ heap = <<>>
    /\ step = 0 /\ dphi = 0 /\ agent_rules = EmptyRules
    /\ seq = <<>> /\ idx = 0
    /\ call = <<>> /\ raised = "none" /\ nops = 0

\* L_Grammar.__init__(initial, rules), by a caller that then calls expand.
InitGrammar ==
    /\ initial \in StringsOver(GrammarSymbols, MaxInitLen)
    /\ rules \in RuleMaps
    /\ iterations = 0 /\ expansion = <<>> /\ i = 0
    /\ log = <<>>
    /\ AgentAbsent
    /\ pc = "idle"

\* An entry that has already rewritten the initial string once.
ExpandCallRewritesFirst(n) ==
    /\ pc = "idle"
    /\ Len(log) < MaxCalls
    /\ iterations' = n
    /\ expansion' = RewritePass(rules, initial)
    /\ i' = 0
    /\ pc' = "expand"
    /\ UNCHANGED <<gvars, log, cvars, avars, lvars, pvars, call, raised, nops>>

\* expand(n) is entered: expansion = self.initial, the loop has not started.
ExpandCall(n) ==
    /\ pc = "idle"
    /\ Len(log) < MaxCalls
    /\ iterations' = n
    /\ expansion' = initial
    /\ i' = 0
    /\ pc' = "expand"
    /\ UNCHANGED <<gvars, log, cvars, avars, lvars, pvars, call, raised, nops>>

\* A pass that rewrites the initial string instead of the previous result.
ExpandPassFromInitial ==
    /\ pc = "expand"
    /\ i < iterations
    /\ Len(RewritePass(rules, initial)) <= MaxSeqLen
    /\ expansion' = RewritePass(rules, initial)
    /\ i' = i + 1
    /\ UNCHANGED <<gvars, iterations, log, cvars, avars, lvars, pvars, call,
                   raised, nops, pc>>

\* One iteration of expand's for loop.
ExpandPass ==
    /\ pc = "expand"
    /\ i < iterations
    /\ Len(RewritePass(rules, expansion)) <= MaxSeqLen
    /\ expansion' = RewritePass(rules, expansion)
    /\ i' = i + 1
    /\ UNCHANGED <<gvars, iterations, log, cvars, avars, lvars, pvars, call,
                   raised, nops, pc>>

\* A return that also stores the result as the grammar's initial string.
ExpandReturnStoresResult ==
    /\ pc = "expand"
    /\ i = iterations
    /\ log' = Append(log, <<iterations, expansion>>)
    /\ initial' = expansion
    /\ pc' = "idle"
    /\ UNCHANGED <<rules, evars, cvars, avars, lvars, pvars, call, raised, nops>>

\* The loop is over: expand returns expansion to its caller.
ExpandReturn ==
    /\ pc = "expand"
    /\ i = iterations
    /\ log' = Append(log, <<iterations, expansion>>)
    /\ pc' = "idle"
    /\ UNCHANGED <<gvars, evars, cvars, avars, lvars, pvars, call, raised, nops>>

NextGrammar ==
    \/ \E n \in 0..MaxIter : ExpandCall(n)
    \/ ExpandPass
    \/ ExpandReturn

SpecGrammar == InitGrammar /\ [][NextGrammar]_vars

(***************************************************************************)
(* SimpleAgent                                                             *)
(***************************************************************************)

\* np.cos(2*np.pi*phi/360.0) and np.sin(2*np.pi*phi/360.0) for a heading
\* that is a whole multiple of 90 degrees.
cos(h) == CASE h % 360 = 0 -> 1
            [] h % 360 = 90 -> 0
            [] h % 360 = 180 -> -1
            [] h % 360 = 270 -> 0

sin(h) == CASE h % 360 = 0 -> 0
            [] h % 360 = 90 -> 1
            [] h % 360 = 180 -> 0
            [] h % 360 = 270 -> -1

\* A trace property that lists the open polyline first.
traceOpenFirst ==
    [k \in 1..(Len(_traces) + 1) |->
        IF k = 1 THEN heap[_trace] ELSE heap[_traces[k - 1]]]

\* The trace property: self._traces + [self._trace], references followed.
trace ==
    [k \in 1..(Len(_traces) + 1) |->
        IF k <= Len(_traces) THEN heap[_traces[k]] ELSE heap[_trace]]

\* SimpleAgent.__init__(x0, y0, phi0): the fields of a fresh agent.
SimpleAgent_init ==
    /\ x' = x0
    /\ y' = y0
    /\ phi' = phi0
    /\ heap' = << <<(<<x0, y0>>)>> >>
    /\ _trace' = 1
    /\ _state' = <<>>
    /\ _traces' = <<>>

\* A forward with the two trigonometric functions exchanged.
forwardSwapsAxes(r) ==
    IF r >= 0
    THEN /\ x' = x + r * sin(phi)
         /\ y' = y + r * cos(phi)
         /\ heap' = [heap EXCEPT ![_trace] = Append(@, <<x', y'>>)]
         /\ raised' = "none"
         /\ UNCHANGED <<phi, _trace, _state, _traces>>
    ELSE /\ raised' = "AssertionError"
         /\ UNCHANGED avars

\* A forward without its assertion: a negative distance moves the turtle.
forwardUnchecked(r) ==
    /\ x' = x + r * cos(phi)
    /\ y' = y + r * sin(phi)
    /\ heap' = [heap EXCEPT ![_trace] = Append(@, <<x', y'>>)]
    /\ raised' = "none"
    /\ UNCHANGED <<phi, _trace, _state, _traces>>

\* forward(r): the assertion, then the move and the append to the open polyline.
forward(r) ==
    IF r >= 0
    THEN /\ x' = x + r * cos(phi)
         /\ y' = y + r * sin(phi)
         /\ heap' = [heap EXCEPT ![_trace] = Append(@, <<x', y'>>)]
         /\ raised' = "none"
         /\ UNCHANGED <<phi, _trace, _state, _traces>>
    ELSE /\ raised' = "AssertionError"
         /\ UNCHANGED avars

\* backward(r): self.forward(-1.0*r).
backward(r) == forward((-1) * r)

\* A rotate that keeps the heading within 0..359.
rotateWraps(angle) ==
    /\ phi' = (phi + angle) % 360
    /\ raised' = "none"
    /\ UNCHANGED <<x, y, _trace, _state, _traces, heap>>

\* rotate(angle): self.phi += angle.
rotate(angle) ==
    /\ phi' = phi + angle
    /\ raised' = "none"
    /\ UNCHANGED <<x, y, _trace, _state, _traces, heap>>

\* A push that also starts a new open polyline at the current position.
pushResets ==
    /\ _state' = Append(_state, <<x, y, phi>>)
    /\ _traces' = Append(_traces, _trace)
    /\ heap' = Append(heap, <<(<<x, y>>)>>)
    /\ _trace' = Len(heap) + 1
    /\ raised' = "none"
    /\ UNCHANGED <<x, y, phi>>

\* A push that archives a copy of the open polyline as it is now.
pushCopies ==
    /\ _state' = Append(_state, <<x, y, phi>>)
    /\ heap' = Append(heap, heap[_trace])
    /\ _traces' = Append(_traces, Len(heap) + 1)
    /\ raised' = "none"
    /\ UNCHANGED <<x, y, phi, _trace>>

\* A push that saves the state triple and archives nothing.
pushSavesOnly ==
    /\ _state' = Append(_state, <<x, y, phi>>)
    /\ raised' = "none"
    /\ UNCHANGED <<x, y, phi, _trace, _traces, heap>>

\* push(): the state triple is saved and the open polyline's reference is
\* appended to _traces; the open polyline stays the same list object.
push ==
    /\ _state' = Append(_state, <<x, y, phi>>)
    /\ _traces' = Append(_traces, _trace)
    /\ raised' = "none"
    /\ UNCHANGED <<x, y, phi, _trace, heap>>

\* A pop that empties the open list in place instead of opening a new one.
popReusesList ==
    IF _state = <<>>
    THEN /\ raised' = "IndexError"
         /\ UNCHANGED avars
    ELSE /\ x' = _state[Len(_state)][1]
         /\ y' = _state[Len(_state)][2]
         /\ phi' = _state[Len(_state)][3]
         /\ _state' = SubSeq(_state, 1, Len(_state) - 1)
         /\ _traces' = Append(_traces, _trace)
         /\ heap' = [heap EXCEPT ![_trace] = <<(<<x', y'>>)>>]
         /\ _trace' = _trace
         /\ raised' = "none"

\* A pop that restores the state and leaves the open polyline as it is.
popKeepsPolyline ==
    IF _state = <<>>
    THEN /\ raised' = "IndexError"
         /\ UNCHANGED avars
    ELSE /\ x' = _state[Len(_state)][1]
         /\ y' = _state[Len(_state)][2]
         /\ phi' = _state[Len(_state)][3]
         /\ _state' = SubSeq(_state, 1, Len(_state) - 1)
         /\ _traces' = Append(_traces, _trace)
         /\ raised' = "none"
         /\ UNCHANGED <<_trace, heap>>

\* A pop that archives the open polyline before it takes the saved triple.
popArchivesFirst ==
    IF _state = <<>>
    THEN /\ _traces' = Append(_traces, _trace)
         /\ raised' = "IndexError"
         /\ UNCHANGED <<x, y, phi, _trace, _state, heap>>
    ELSE /\ x' = _state[Len(_state)][1]
         /\ y' = _state[Len(_state)][2]
         /\ phi' = _state[Len(_state)][3]
         /\ _state' = SubSeq(_state, 1, Len(_state) - 1)
         /\ _traces' = Append(_traces, _trace)
         /\ heap' = Append(heap, <<(<<x', y'>>)>>)
         /\ _trace' = Len(heap) + 1
         /\ raised' = "none"

\* A pop that takes the oldest saved triple instead of the newest.
popOldest ==
    IF _state = <<>>
    THEN /\ raised' = "IndexError"
         /\ UNCHANGED avars
    ELSE /\ x' = _state[1][1]
         /\ y' = _state[1][2]
         /\ phi' = _state[1][3]
         /\ _state' = Tail(_state)
         /\ _traces' = Append(_traces, _trace)
         /\ heap' = Append(heap, <<(<<x', y'>>)>>)
         /\ _trace' = Len(heap) + 1
         /\ raised' = "none"

\* A pop that returns quietly when nothing is saved.
popIgnoresEmpty ==
    IF _state = <<>>
    THEN /\ raised' = "none"
         /\ UNCHANGED avars
    ELSE /\ x' = _state[Len(_state)][1]
         /\ y' = _state[Len(_state)][2]
         /\ phi' = _state[Len(_state)][3]
         /\ _state' = SubSeq(_state, 1, Len(_state) - 1)
         /\ _traces' = Append(_traces, _trace)
         /\ heap' = Append(heap, <<(<<x', y'>>)>>)
         /\ _trace' = Len(heap) + 1
         /\ raised' = "none"

\* pop(): list.pop() of an empty _state raises before anything is assigned;
\* otherwise the last triple is restored and removed, the open polyline's
\* reference is archived and a new list holding the restored position opens.
pop ==
    IF _state = <<>>
    THEN /\ raised' = "IndexError"
         /\ UNCHANGED avars
    ELSE /\ x' = _state[Len(_state)][1]
         /\ y' = _state[Len(_state)][2]
         /\ phi' = _state[Len(_state)][3]
         /\ _state' = SubSeq(_state, 1, Len(_state) - 1)
         /\ _traces' = Append(_traces, _trace)
         /\ heap' = Append(heap, <<(<<x', y'>>)>>)
         /\ _trace' = Len(heap) + 1
         /\ raised' = "none"

\* noop(): pass.
noop ==
    /\ raised' = "none"
    /\ UNCHANGED avars

\* Arguments a direct caller of a SimpleAgent passes.
Starts == { <<0, 0, 0>>, <<1, -1, 90>> }
Distances == {-1, 0, 1, 2}
Turns == {90, -90}

\* The values of the variables a bare SimpleAgent does not have.
GrammarAbsent ==
    /\ initial = <<>> /\ rules = EmptyRules
    /\ iterations = 0 /\ expansion = <<>> /\ i = 0
    /\ log = <<>>
    /\ step = 0 /\ dphi = 0 /\ agent_rules = EmptyRules
    /\ seq = <<>> /\ idx = 0

\* A SimpleAgent just constructed by a caller that then invokes its methods.
InitAgent ==
    /\ \E s \in Starts : x0 = s[1] /\ y0 = s[2] /\ phi0 = s[3]
    /\ x = x0 /\ y = y0 /\ phi = phi0
    /\ heap = << <<(<<x0, y0>>)>> >>
    /\ _trace = 1
    /\ _state = <<>>
    /\ _traces = <<>>
    /\ GrammarAbsent
    /\ call = <<>> /\ raised = "none" /\ nops = 0
    /\ pc = "ready"

\* What every direct call leaves alone, and the count of calls made.
Called(invocation) ==
    /\ pc = "ready"
    /\ nops < MaxOps
    /\ nops' = nops + 1
    /\ call' = invocation
    /\ UNCHANGED <<gvars, evars, log, cvars, lvars, pvars, pc>>

CallForward(r) == Called(<<"forward", r>>) /\ forward(r)
CallBackward(r) == Called(<<"backward", r>>) /\ backward(r)
CallRotate(a) == Called(<<"rotate", a>>) /\ rotate(a)
CallPush == Called(<<"push">>) /\ push
CallPop == Called(<<"pop">>) /\ pop
CallNoop == Called(<<"noop">>) /\ noop

NextAgent ==
    \/ \E r \in Distances : CallForward(r)
    \/ \E r \in Distances : CallBackward(r)
    \/ \E a \in Turns : CallRotate(a)
    \/ CallPush
    \/ CallPop
    \/ CallNoop

SpecAgent == InitAgent /\ [][NextAgent]_vars

(***************************************************************************)
(* L_Agent                                                                 *)
(***************************************************************************)

\* L_Agent.default_rules: each symbol's lambda, named by its body.
default_rules ==
    ("F" :> "t.forward(d)") @@ ("B" :> "t.back(d)") @@
    ("+" :> "t.rotate(-a)") @@ ("-" :> "t.rotate(a)") @@
    ("X" :> "t.noop()") @@ ("Y" :> "t.noop()") @@
    ("[" :> "t.push()") @@ ("]" :> "t.pop()")

\* A table a caller passes as rules instead: B calls backward, and the
\* symbols X and Y have no entry.
caller_rules ==
    ("F" :> "t.forward(d)") @@ ("B" :> "t.backward(d)") @@
    ("+" :> "t.rotate(-a)") @@ ("-" :> "t.rotate(a)") @@
    ("[" :> "t.push()") @@ ("]" :> "t.pop()")

DispatchTables == {default_rules, caller_rules}

\* Arguments a caller constructs an L_Agent with.
Steps == {-1, 0, 1, 2}
Angles == {90, 180}

\* Calling a lambda of a dispatch table with (t, d, a).  SimpleAgent defines
\* no method back: the attribute lookup t.back raises AttributeError.
Invoke(lambda, d, a) ==
    CASE lambda = "t.forward(d)" -> call' = <<"forward", d>> /\ forward(d)
      [] lambda = "t.backward(d)" -> call' = <<"backward", d>> /\ backward(d)
      [] lambda = "t.back(d)" ->
            /\ call' = <<"back", d>>
            /\ raised' = "AttributeError"
            /\ UNCHANGED avars
      [] lambda = "t.rotate(-a)" -> call' = <<"rotate", -a>> /\ rotate(-a)
      [] lambda = "t.rotate(a)" -> call' = <<"rotate", a>> /\ rotate(a)
      [] lambda = "t.noop()" -> call' = <<"noop">> /\ noop
      [] lambda = "t.push()" -> call' = <<"push">> /\ push
      [] lambda = "t.pop()" -> call' = <<"pop">> /\ pop

\* L_Agent(x0, y0, phi0, rules, grammar, step, phi, iterations) is called:
\* the arguments are bound, no field is set yet.
Init ==
    /\ initial \in StringsOver(Symbols, MaxCmdLen)
    /\ rules \in RuleMaps
    /\ iterations \in 0..MaxIter
    /\ x0 = 0 /\ y0 = 0 /\ phi0 = 0
    /\ step \in Steps
    /\ dphi \in Angles
    /\ agent_rules \in DispatchTables
    /\ x = 0 /\ y = 0 /\ phi = 0
    /\ _trace = 0 /\ _state = <<>> /\ _traces = <<>> /\ heap = <<>>
    /\ expansion = <<>> /\ i = 0
    /\ log = <<>>
    /\ seq = <<>> /\ idx = 0
    /\ call = <<>> /\ raised = "none" /\ nops = 0
    /\ pc = "new"

\* L_Agent.__init__ up to the first line of expand: SimpleAgent.__init__,
\* the field assignments, _process's call of grammar.expand(self.iterations).
L_Agent_init ==
    /\ pc = "new"
    /\ SimpleAgent_init
    /\ expansion' = initial
    /\ i' = 0
    /\ pc' = "expand"
    /\ UNCHANGED <<gvars, iterations, log, cvars, lvars, pvars, call, raised, nops>>

\* expand returns into _process: seq = self.grammar.expand(self.iterations).
ProcessStart ==
    /\ pc = "expand"
    /\ i = iterations
    /\ seq' = expansion
    /\ idx' = 0
    /\ pc' = "process"
    /\ UNCHANGED <<gvars, evars, log, cvars, avars, lvars, call, raised, nops>>

\* An interpreter that skips a symbol the table does not know.
ProcessSymbolSkipsUnknown ==
    /\ pc = "process"
    /\ idx < Len(seq)
    /\ IF seq[idx + 1] \in DOMAIN agent_rules
       THEN Invoke(agent_rules[seq[idx + 1]], step, dphi)
       ELSE /\ call' = <<"rules", seq[idx + 1]>>
            /\ raised' = "none"
            /\ UNCHANGED avars
    /\ idx' = IF raised' = "none" THEN idx + 1 ELSE idx
    /\ pc' = IF raised' = "none" THEN "process" ELSE "failed"
    /\ UNCHANGED <<gvars, evars, log, cvars, lvars, seq, nops>>

\* One iteration of _process's loop: self.rules[i](self, self.step, self.dphi).
\* A symbol that is no key of self.rules raises KeyError; an exception of
\* the lambda leaves the loop and the constructor.
ProcessSymbol ==
    /\ pc = "process"
    /\ idx < Len(seq)
    /\ IF seq[idx + 1] \in DOMAIN agent_rules
       THEN Invoke(agent_rules[seq[idx + 1]], step, dphi)
       ELSE /\ call' = <<"rules", seq[idx + 1]>>
            /\ raised' = "KeyError"
            /\ UNCHANGED avars
    /\ idx' = IF raised' = "none" THEN idx + 1 ELSE idx
    /\ pc' = IF raised' = "none" THEN "process" ELSE "failed"
    /\ UNCHANGED <<gvars, evars, log, cvars, lvars, seq, nops>>

\* The loop has consumed seq: _process and the constructor return.
ProcessReturn ==
    /\ pc = "process"
    /\ idx = Len(seq)
    /\ pc' = "done"
    /\ UNCHANGED <<gvars, evars, log, cvars, avars, lvars, pvars, call, raised, nops>>

Next ==
    \/ L_Agent_init
    \/ ExpandPass
    \/ ProcessStart
    \/ ProcessSymbol
    \/ ProcessReturn

Spec == Init /\ [][Next]_vars

(***************************************************************************)
(* Properties of L_Grammar.expand                                          *)
(***************************************************************************)

\* out is inp with every character replaced, in place and in order, by its
\* rule's text when it has a rule and by itself otherwise: out splits into
\* consecutive pieces, the k-th being the image of inp[k].
IsOnePassOf(out, inp, r) ==
    LET image(k) == IF inp[k] \in DOMAIN r THEN r[inp[k]] ELSE <<inp[k]>>
        off[k \in 0..Len(inp)] == IF k = 0 THEN 0 ELSE off[k - 1] + Len(image(k))
    IN  /\ Len(out) = off[Len(inp)]
        /\ \A k \in 1..Len(inp) : SubSeq(out, off[k - 1] + 1, off[k]) = image(k)

\* C1: whenever expand(n) and expand(n+1) have both been returned by the same
\* grammar, the result of expand(n+1) is one rewrite pass of the result of
\* expand(n): every character replaced by rules[c] when c is a key and by c
\* otherwise, replacement text not rescanned.
C1_PassComposition ==
    \A j \in DOMAIN log : \A k \in DOMAIN log :
        log[k][1] = log[j][1] + 1 => IsOnePassOf(log[k][2], log[j][2], rules)

\* expand(n) and expand(n+1) were returned for some n >= 1, the pass changed
\* the string, and it met both a character with a rule and one without.
C1_Witness ==
    \E j \in DOMAIN log : \E k \in DOMAIN log :
        /\ log[j][1] >= 1
        /\ log[k][1] = log[j][1] + 1
        /\ log[k][2] # log[j][2]
        /\ \E a \in DOMAIN log[j][2] : log[j][2][a] \in DOMAIN rules
        /\ \E a \in DOMAIN log[j][2] : log[j][2][a] \notin DOMAIN rules

\* C2: every expand(0) returns the grammar's initial string unchanged.
C2_IdentityExpansion ==
    \A k \in DOMAIN log : log[k][1] = 0 => log[k][2] = initial

\* expand(0) was returned by a grammar one pass of which changes the string.
C2_Witness ==
    \E k \in DOMAIN log :
        /\ log[k][1] = 0
        /\ initial # <<>>
        /\ RewritePass(rules, initial) # initial

\* C3: no step of an expand call changes the grammar's initial string or its
\* rule mapping, and any two calls with the same iteration count returned
\* equal strings.
C3_ExpandPure ==
    /\ [][initial' = initial /\ rules' = rules]_vars
    /\ [](\A j \in DOMAIN log : \A k \in DOMAIN log :
            log[j][1] = log[k][1] => log[j][2] = log[k][2])

\* Two calls with the same count n >= 1, a call with another count between
\* them, and results that differ from the initial string.
C3_Witness ==
    /\ Len(log) >= 3
    /\ log[1][1] = log[3][1]
    /\ log[1][1] >= 1
    /\ log[2][1] # log[1][1]
    /\ log[1][2] # initial
    /\ log[2][2] # log[1][2]

(***************************************************************************)
(* Properties of SimpleAgent called directly                               *)
(***************************************************************************)

\* The step is a direct call of the method name.
DirectCall(name) == nops' = nops + 1 /\ call'[1] = name

\* C4: a call backward(d) with d >= 0 returns without error, has moved the
\* turtle by d against the heading, kept the heading and appended the new
\* position to the open polyline (so a call that raises has d < 0).
C4_BackwardMoves ==
    [][(DirectCall("backward") /\ call'[2] >= 0) =>
        /\ raised' = "none"
        /\ x' = x - call'[2] * cos(phi)
        /\ y' = y - call'[2] * sin(phi)
        /\ phi' = phi
        /\ _trace' = _trace
        /\ heap'[_trace] = Append(heap[_trace], <<x', y'>>)]_vars

\* C9: a call forward(r) with r < 0 raises the assertion and changes no field
\* of the agent (no move, no point appended); a call with r >= 0 returns.
C9_ForwardPrecondition ==
    [][DirectCall("forward") =>
        IF call'[2] < 0
        THEN raised' = "AssertionError" /\ UNCHANGED avars
        ELSE raised' = "none"]_vars

\* forward(-1) has just raised on a turtle that had moved and turned before.
C9_Witness ==
    /\ call = <<"forward", -1>>
    /\ raised = "AssertionError"
    /\ Len(heap[_trace]) >= 2
    /\ phi # phi0

(***************************************************************************)
(* Properties of L_Agent interpreting a command string                     *)
(***************************************************************************)

\* The step interprets the next symbol of seq.
SymbolStep == pc = "process" /\ idx < Len(seq)

\* Number of [ minus number of ] among the first k symbols of s.
Depth(s, k) ==
    Cardinality({j \in 1..k : s[j] = "["}) - Cardinality({j \in 1..k : s[j] = "]"})

\* Some prefix of s has more ] than [, and the position of the first ] that
\* makes it so.
Unbalanced(s) == \E k \in 1..Len(s) : Depth(s, k) < 0
FirstExcess(s) ==
    CHOOSE k \in 1..Len(s) : Depth(s, k) < 0 /\ \A j \in 1..(k - 1) : Depth(s, j) >= 0

\* s has a symbol that is no key of table t, and the position of the first.
HasUnknown(s, t) == \E k \in 1..Len(s) : s[k] \notin DOMAIN t
FirstUnknown(s, t) ==
    CHOOSE k \in 1..Len(s) : s[k] \notin DOMAIN t /\ \A j \in 1..(k - 1) : s[j] \in DOMAIN t

Ended == pc \in {"done", "failed"}

\* C5: under the default table, interpreting B returns without error, has
\* moved the turtle back by step, and interpretation goes on to the next symbol.
C5_DefaultBMovesBack ==
    [][(SymbolStep /\ seq[idx + 1] = "B" /\ agent_rules = default_rules /\ step >= 0) =>
        /\ raised' = "none"
        /\ x' = x - step * cos(phi)
        /\ y' = y - step * sin(phi)
        /\ idx' = idx + 1
        /\ pc' = "process"]_vars

\* C6: with the default table, step >= 0, every symbol of the expanded
\* string a key of the table and no prefix with more ] than [, the
\* construction does not fail.
C6_WellFormedCompletes ==
    (/\ pc \in {"process", "done", "failed"}
     /\ agent_rules = default_rules
     /\ step >= 0
     /\ ~HasUnknown(seq, agent_rules)
     /\ ~Unbalanced(seq))
    => pc # "failed"

\* C7: push puts the current (x, y, phi) on top of the stack, pop restores
\* exactly the top triple and removes it, and no other operation touches
\* the stack; F[F]F with step 1 and angle 90 from (0,0) heading 0 ends at
\* (2,0), heading 0, with an empty stack.
C7_PopRestoresLIFO ==
    /\ [][(SymbolStep /\ call'[1] = "push") =>
            _state' = Append(_state, <<x, y, phi>>)]_vars
    /\ [][(SymbolStep /\ call'[1] = "pop" /\ raised' = "none") =>
            /\ _state # <<>>
            /\ <<x', y', phi'>> = _state[Len(_state)]
            /\ _state' = SubSeq(_state, 1, Len(_state) - 1)]_vars
    /\ [][(SymbolStep /\ call'[1] \notin {"push", "pop"}) => _state' = _state]_vars
    /\ []((/\ pc = "done"
           /\ seq = <<"F", "[", "F", "]", "F">>
           /\ step = 1 /\ dphi = 90
           /\ x0 = 0 /\ y0 = 0 /\ phi0 = 0)
          => (x = 2 /\ y = 0 /\ phi = 0 /\ _state = <<>>))

\* F[F]F with step 1 and angle 90 has been interpreted to the end.
C7_Witness ==
    /\ pc = "done"
    /\ seq = <<"F", "[", "F", "]", "F">>
    /\ step = 1 /\ dphi = 90
    /\ x0 = 0 /\ y0 = 0 /\ phi0 = 0
    /\ x = 2

\* C8 as stated: a command string with a prefix holding more ] than [ ends
\* in a stack-underflow failure at the first ] that exceeds.
C8_UnbalancedUnderflows ==
    (Ended /\ Unbalanced(seq)) =>
        (pc = "failed" /\ raised = "IndexError" /\ idx + 1 = FirstExcess(seq))

\* C8 amended: interpretation of such a string never gets past the first
\* exceeding ] and never completes; when it fails at that ] the failure is the
\* stack underflow (it may fail at an earlier symbol for another reason);
\* after a failure no step is taken.
C8_UnderflowUnlessEarlierFailure ==
    /\ [](Unbalanced(seq) =>
            /\ idx < FirstExcess(seq)
            /\ pc # "done"
            /\ (pc = "failed" /\ idx + 1 = FirstExcess(seq)) => raised = "IndexError")
    /\ [][pc # "failed"]_vars

\* The construction failed with the underflow at a ] that follows symbols
\* interpreted without error, and symbols after it were left uninterpreted.
C8_Witness ==
    /\ pc = "failed"
    /\ raised = "IndexError"
    /\ Unbalanced(seq)
    /\ idx + 1 = FirstExcess(seq)
    /\ idx >= 2
    /\ idx + 1 < Len(seq)

\* C10 as stated: a command string with a symbol that is no key of the
\* dispatch table ends in an unknown-symbol failure at the first such symbol.
C10_UnknownSymbolFails ==
    (Ended /\ HasUnknown(seq, agent_rules)) =>
        (pc = "failed" /\ raised = "KeyError" /\ idx + 1 = FirstUnknown(seq, agent_rules))

\* C10 amended: interpretation of such a string never gets past the first
\* unknown symbol and never completes; when it fails at that symbol the
\* failure is the unknown-symbol error (it may fail at an earlier symbol for
\* another reason); after a failure no step is taken.
C10_UnknownUnlessEarlierFailure ==
    /\ [](HasUnknown(seq, agent_rules) =>
            /\ idx < FirstUnknown(seq, agent_rules)
            /\ pc # "done"
            /\ (pc = "failed" /\ idx + 1 = FirstUnknown(seq, agent_rules)) =>
                    raised = "KeyError")
    /\ [][pc = "failed" => UNCHANGED vars]_vars

\* The construction failed with the unknown-symbol error at a symbol that
\* follows symbols interpreted without error, with symbols left after it.
C10_Witness ==
    /\ pc = "failed"
    /\ raised = "KeyError"
    /\ idx + 1 = FirstUnknown(seq, agent_rules)
    /\ idx >= 2
    /\ idx + 1 < Len(seq)

(***************************************************************************)
(* Properties of the polylines                                             *)
(***************************************************************************)

\* The step is a direct call that archives: a push, or a pop that returned.
ArchivingCall ==
    /\ nops' = nops + 1
    /\ \/ call'[1] = "push"
       \/ call'[1] = "pop" /\ raised' = "none"

\* C11: trace is the archived polylines, in the order they were archived,
\* followed by the open polyline as its last element: an archiving call
\* lengthens trace by one, keeps the entries archived before in place and
\* puts the polyline that was open behind them; no other call changes the
\* number of entries; and every polyline of trace has at least one point.
C11_TraceOrder ==
    /\ [](/\ Len(trace) = Len(_traces) + 1
          /\ trace[Len(trace)] = heap[_trace]
          /\ \A k \in 1..Len(_traces) : trace[k] = heap[_traces[k]]
          /\ \A k \in 1..Len(trace) : Len(trace[k]) >= 1)
    /\ [][ArchivingCall =>
            /\ Len(trace') = Len(trace) + 1
            /\ \A k \in 1..Len(trace) : trace'[k] = trace[k]]_vars
    /\ [][~ArchivingCall => Len(trace') = Len(trace)]_vars

\* Two polylines archived and an open one that differs from them, each
\* with a point added after its start.
C11_Witness ==
    /\ Len(trace) >= 3
    /\ trace[2] # trace[3]
    /\ Len(trace[1]) >= 2
    /\ Len(trace[3]) >= 2

\* The symbol's entry in the agent's dispatch table is push or pop.
IsArchiver(c) ==
    c \in DOMAIN agent_rules /\ agent_rules[c] \in {"t.push()", "t.pop()"}

\* The push and pop symbols among those interpreted so far, in order.
Archived == SelectSeq(SubSeq(seq, 1, idx), IsArchiver)

\* The last point of a polyline.
Last(polyline) == polyline[Len(polyline)]

\* C12: while and after a command string is interpreted without error, trace
\* holds one polyline more than the push and pop operations executed; after
\* F[F]F with step 1 and angle 90 from (0,0) heading 0 these are 2 archived
\* polylines and the open one, whose last point is (2,0).
C12_PolylineCount ==
    /\ pc \in {"process", "done"} => Len(trace) = 1 + Len(Archived)
    /\ (/\ pc = "done"
        /\ seq = <<"F", "[", "F", "]", "F">>
        /\ step = 1 /\ dphi = 90
        /\ x0 = 0 /\ y0 = 0 /\ phi0 = 0)
       => (/\ Len(_traces) = 2
           /\ Len(trace) = 3
           /\ Last(heap[_trace]) = <<2, 0>>)

\* F[F]F has been interpreted to the end and trace holds three polylines.
C12_Witness ==
    /\ pc = "done"
    /\ seq = <<"F", "[", "F", "]", "F">>
    /\ step = 1 /\ dphi = 90
    /\ Len(trace) = 3
    /\ Last(trace[3]) = <<2, 0>>

\* The step interprets the symbol c under the default dispatch table.
DefaultStep(c) == SymbolStep /\ agent_rules = default_rules /\ seq[idx + 1] = c

\* C13: under the default table + lowers the heading by exactly the angle and
\* - raises it by exactly the angle, without wrapping, and both leave the
\* position, the stack and every polyline as they were; X and Y change no
\* field of the agent; none of the four raises.
C13_RotateAndNoop ==
    /\ [][DefaultStep("+") =>
            /\ phi' = phi - dphi
            /\ raised' = "none"
            /\ UNCHANGED <<x, y, _trace, _state, _traces, heap>>]_vars
    /\ [][DefaultStep("-") =>
            /\ phi' = phi + dphi
            /\ raised' = "none"
            /\ UNCHANGED <<x, y, _trace, _state, _traces, heap>>]_vars
    /\ [][(DefaultStep("X") \/ DefaultStep("Y")) =>
            /\ raised' = "none"
            /\ UNCHANGED avars]_vars

\* A rotation under the default table has taken the heading a full turn
\* away from 0, after the turtle had moved.
C13_Witness ==
    /\ pc \in {"process", "done"}
    /\ agent_rules = default_rules
    /\ call # <<>>
    /\ call[1] = "rotate"
    /\ (phi >= 360 \/ phi <= -360)
    /\ Len(heap[1]) >= 2

\* The displacement of d along a heading that is a multiple of 90 degrees.
Along(h, d) ==
    CASE h % 360 = 0 -> <<d, 0>>
      [] h % 360 = 90 -> <<0, d>>
      [] h % 360 = 180 -> <<-d, 0>>
      [] h % 360 = 270 -> <<0, -d>>

C15_PopArchivesAndRestarts ==
    [][(DirectCall("pop") /\ raised' = "none") =>
        /\ Len(trace') = Len(trace) + 1
        /\ \A k \in 1..Len(trace) : trace'[k] = trace[k]
        /\ _traces' = Append(_traces, _trace)
        /\ _trace' \notin DOMAIN heap
        /\ heap'[_trace'] = <<(<<x', y'>>)>>
        /\ <<x', y', phi'>> = _state[Len(_state)]]_vars

\* A pop has just returned: the polyline it archived has several points and
\* ends away from the restored position.
C15_Witness ==
    /\ call = <<"pop">>
    /\ raised = "none"
    /\ Len(trace) >= 3
    /\ Len(trace[Len(trace) - 1]) >= 3
    /\ Last(trace[Len(trace) - 1]) # <<x, y>>
    /\ Len(heap[_trace]) = 1

\* C16: a push returns without error, has made the stack one deeper with the
\* current (x, y, phi) on top of the triples saved before, has appended the
\* open polyline to the archived list, and has left x, y, phi and the open
\* polyline, which stays the same list with the same points, unchanged.
C16_PushSavesAndArchives ==
    [][DirectCall("push") =>
        /\ raised' = "none"
        /\ _state' = Append(_state, <<x, y, phi>>)
        /\ _traces' = Append(_traces, _trace)
        /\ UNCHANGED <<x, y, phi>>
        /\ _trace' = _trace
        /\ heap'[_trace'] = heap[_trace]]_vars

\* A push has just returned on a turtle that had moved, with a different
\* triple saved below the new one.
C16_Witness ==
    /\ call = <<"push">>
    /\ Len(_state) >= 2
    /\ _state[Len(_state)] # _state[Len(_state) - 1]
    /\ _state[Len(_state)] = <<x, y, phi>>
    /\ Len(heap[_trace]) >= 2

\* C17: in every state of an agent, whatever calls were made on it, the last
\* point of the open polyline is the current position (x, y).
C17_OpenEndsAtPosition == Last(heap[_trace]) = <<x, y>>

\* The turtle has moved on after a pop took it back from where the archived
\* polyline ends.
C17_Witness ==
    /\ Len(_traces) >= 2
    /\ _trace > 1
    /\ call # <<>>
    /\ call[1] = "forward"
    /\ raised = "none"
    /\ Len(heap[_trace]) >= 2
    /\ heap[_trace][1] # Last(trace[Len(_traces)])
    /\ heap[_trace][1] # <<x, y>>

\* C18: a call forward(r) with r < 0 and a call pop() on an empty stack raise
\* and leave x, y, phi, the stack, the archived list, the open polyline and
\* every polyline's points as they were; so does any direct call that raises.
C18_FailureChangesNothing ==
    /\ [][((DirectCall("forward") /\ call'[2] < 0) \/ (DirectCall("pop") /\ _state = <<>>))
            => (raised' # "none" /\ UNCHANGED avars)]_vars
    /\ [][(nops' = nops + 1 /\ raised' # "none") => UNCHANGED avars]_vars

\* pop() has just raised on an agent that has moved, pushed and popped before.
C18_Witness ==
    /\ call = <<"pop">>
    /\ raised = "IndexError"
    /\ Len(_traces) >= 2
    /\ _trace > 1
    /\ Len(heap[_trace]) >= 2

\* C19: the entry a push archived is the list that stayed open, not a copy:
\* at every point of an interpretation, each entry of trace archived by a
\* push is the same list as the entry that follows it (the one archived by
\* the next push or pop, or the open polyline), hence equal to it point for
\* point, whatever was appended after the push.
C19_PushArchivesAlias ==
    pc \in {"process", "done", "failed"} =>
        \A k \in 1..Len(_traces) :
            agent_rules[Archived[k]] = "t.push()" =>
                /\ _traces[k] = (IF k < Len(_traces) THEN _traces[k + 1] ELSE _trace)
                /\ trace[k] = trace[k + 1]

\* An interpretation has ended with an entry archived by a push that holds
\* points appended after that push and is followed by another archived entry
\* and by an open polyline that differs from it.
C19_Witness ==
    /\ pc = "done"
    /\ \E k \in 1..Len(_traces) :
        /\ agent_rules[Archived[k]] = "t.push()"
        /\ k < Len(_traces)
        /\ Len(trace[k]) >= 3
        /\ trace[k] # trace[Len(trace)]
====
